---------------------------- MODULE Spec2Model ----------------------------
(***************************************************************************)
(* Model of mp4_smaller_rust (src/src/main.rs): one run of main().         *)
(*                                                                         *)
(* f64 values are modelled as exact rationals num/den (plus inf and NaN).  *)
(* The inputs enumerated below are binary-exact (integers, halves,         *)
(* quarters), and on them the exact-rational result of every comparison    *)
(* and of the truncating cast equals the IEEE-754 double result.           *)
(* Text produced by the prober is a sequence of one-character strings.     *)
(***************************************************************************)
EXTENDS Integers, Sequences, FiniteSets, TLC

VARIABLES args, pc, v_bitrate, probe_out, duration, calc, ff_args,
          ff_result, stderr, trace, exit_code

vars == <<args, pc, v_bitrate, probe_out, duration, calc, ff_args,
          ff_result, stderr, trace, exit_code>>

(***************************************************************************)
(* Bounds of the enumerated inputs.                                        *)
(***************************************************************************)
MaxSmallOverride == 1

MaxSmallAudio == 1

MaxExitCode == 2

(***************************************************************************)
(* Option<T>                                                               *)
(***************************************************************************)
None == [some |-> FALSE, val |-> 0]

Some(x) == [some |-> TRUE, val |-> x]

(***************************************************************************)
(* Program constants.                                                      *)
(***************************************************************************)
DefaultTargetBytes == 10 * 1024 * 1024

DefaultAudioBitrate == 64000

DefaultVideoBitrate == 500000

MinVideoBitrate == 200000

MaxVideoBitrate == 1500000

(***************************************************************************)
(* Command lines accepted by Args::parse().                                *)
(***************************************************************************)
TargetBytesSet == {1000, 2000000, DefaultTargetBytes}

OverrideSet == {None} \cup {Some(n) : n \in 0..MaxSmallOverride}
                 \cup {Some(999), Some(1000), Some(DefaultVideoBitrate), Some(2000000)}

AudioBitrateSet == (0..MaxSmallAudio) \cup {DefaultAudioBitrate, 96001}

Args == [target_bytes : TargetBytesSet,
         video_bitrate : OverrideSet,
         audio_bitrate : AudioBitrateSet]

(***************************************************************************)
(* f64 values: finite rationals num/den in lowest terms, +-inf, NaN.       *)
(***************************************************************************)
RECURSIVE GCD(_, _)
GCD(a, b) == IF b = 0 THEN a ELSE GCD(b, a % b)

Abs(x) == IF x < 0 THEN 0 - x ELSE x

Fin(n, d) == LET g == GCD(Abs(n), d)
             IN [kind |-> "fin", num |-> n \div g, den |-> d \div g]

Inf(sign) == [kind |-> "inf", num |-> sign, den |-> 1]

NaN == [kind |-> "nan", num |-> 0, den |-> 1]

Zero == Fin(0, 1)

\* d > 0.0
GtZero(d) == d.kind # "nan" /\ d.num > 0

(***************************************************************************)
(* str::trim and str::parse::<f64>                                         *)
(***************************************************************************)
IsSpace(c) == c \in {" ", "\n", "\t", "\r"}

RECURSIVE TrimStart(_)
TrimStart(s) == IF s = <<>> THEN s
                ELSE IF IsSpace(Head(s)) THEN TrimStart(Tail(s)) ELSE s

RECURSIVE TrimEnd(_)
TrimEnd(s) == IF s = <<>> THEN s
              ELSE IF IsSpace(s[Len(s)]) THEN TrimEnd(SubSeq(s, 1, Len(s) - 1))
              ELSE s

Trim(s) == TrimEnd(TrimStart(s))

Digits == {"0", "1", "2", "3", "4", "5", "6", "7", "8", "9"}

DigitVal(c) == CASE c = "0" -> 0 [] c = "1" -> 1 [] c = "2" -> 2
                 [] c = "3" -> 3 [] c = "4" -> 4 [] c = "5" -> 5
                 [] c = "6" -> 6 [] c = "7" -> 7 [] c = "8" -> 8
                 [] c = "9" -> 9

RECURSIVE DigitsVal(_)
DigitsVal(s) == IF s = <<>> THEN 0
                ELSE 10 * DigitsVal(SubSeq(s, 1, Len(s) - 1)) + DigitVal(s[Len(s)])

RECURSIVE Pow10(_)
Pow10(k) == IF k = 0 THEN 1 ELSE 10 * Pow10(k - 1)

Lower(c) == CASE c = "I" -> "i" [] c = "N" -> "n" [] c = "F" -> "f"
              [] c = "A" -> "a" [] OTHER -> c

\* Grammar of f64::from_str without the exponent part (no input below
\* contains 'e' or 'E'):  Sign? ( 'inf' | 'infinity' | 'nan' | Number ),
\* Number ::= Digit+ | Digit+ '.' Digit* | Digit* '.' Digit+
ParseF64(s) ==
  LET signed == s # <<>> /\ s[1] \in {"+", "-"}
      sign   == IF s # <<>> /\ s[1] = "-" THEN 0 - 1 ELSE 1
      body   == IF signed THEN Tail(s) ELSE s
      low    == [i \in 1..Len(body) |-> Lower(body[i])]
      dots   == {i \in 1..Len(body) : body[i] = "."}
  IN IF low \in {<<"i", "n", "f">>, <<"i", "n", "f", "i", "n", "i", "t", "y">>}
       THEN Some(Inf(sign))
     ELSE IF low = <<"n", "a", "n">> THEN Some(NaN)
     ELSE IF Cardinality(dots) > 1 THEN None
     ELSE LET dot == IF dots = {} THEN Len(body) + 1 ELSE CHOOSE i \in dots : TRUE
              ip  == SubSeq(body, 1, dot - 1)
              fp  == SubSeq(body, dot + 1, Len(body))
          IN IF /\ \A i \in 1..Len(ip) : ip[i] \in Digits
                /\ \A i \in 1..Len(fp) : fp[i] \in Digits
                /\ Len(ip) + Len(fp) >= 1
               THEN Some(Fin(sign * DigitsVal(ip \o fp), Pow10(Len(fp))))
               ELSE None

(***************************************************************************)
(* probe_duration: what the ffprobe child process can do.                  *)
(***************************************************************************)
StdoutSet == { <<>>,
               <<"\n">>,
               <<"N", "/", "A", "\n">>,
               <<"1", "0", "0", ".", "0", "0", "0", "0", "0", "0", "\n">>,
               <<"6", "0", "\n">>,
               <<" ", "1", "0", ".", "5", "\r", "\n">>,
               <<"4", "0", "0", ".", "2", "5", "\n">>,
               <<".", "5">>,
               <<"3", ".">>,
               <<"0", ".", "0", "0", "0", "0", "0", "0", "\n">>,
               <<"-", "1", ".", "5", "\n">>,
               <<"1", ".", "2", ".", "3">>,
               <<"1", "2", "0", "0", "\n">>,
               <<"i", "n", "f", "\n">>,
               <<"-", "i", "n", "f">>,
               <<"N", "a", "N">>,
               <<".">>,
               <<"-">> }

ProbeOutcomes == {[spawned |-> FALSE, success |-> FALSE, stdout |-> <<>>]}
                 \cup {[spawned |-> TRUE, success |-> FALSE, stdout |-> s] :
                          s \in {<<>>, <<"6", "0", "\n">>}}
                 \cup {[spawned |-> TRUE, success |-> TRUE, stdout |-> s] :
                          s \in StdoutSet}

\* probe_duration without the exit-status test of lines 100-102
probe_duration_ignoring_status(out) ==
  IF ~out.spawned THEN None
  ELSE ParseF64(Trim(out.stdout))

probe_duration(out) ==
  IF ~out.spawned THEN None
  ELSE IF ~out.success THEN None
  ELSE ParseF64(Trim(out.stdout))

unwrap_or(opt, dflt) == IF opt.some THEN opt.val ELSE dflt


(***************************************************************************)
(* Bitrate estimation, main() lines 27-39.                                 *)
(***************************************************************************)
\* args.video_bitrate.unwrap_or(500_000)
InitialBitrate(a) == unwrap_or(a.video_bitrate, DefaultVideoBitrate)

\* an unknown duration taken as one second instead of 0.0
DurationOrOne(out) == unwrap_or(probe_duration(out), Fin(1, 1))

\* probe_duration(&args.input).unwrap_or(0.0)
DurationOrZero(out) == unwrap_or(probe_duration(out), Zero)

\* the two terms of the reserve exchanged
ReserveNum_swapped(tb, ab, d) == 5 * ab * d.num - 34 * tb * d.den

\* reserve = target_bytes * 0.85 - audio_bitrate / 8.0 * duration, as the
\* numerator of a fraction with the positive denominator 40 * d.den
\* (finite d only).
ReserveNum(tb, ab, d) == 34 * tb * d.den - 5 * ab * d.num

\* the test `reserve > 0.0` dropped
ReservePositive_untested(tb, ab, d) == d.kind = "fin"

\* reserve > 0.0; for an infinite duration the reserve is -inf or NaN.
ReservePositive(tb, ab, d) == d.kind = "fin" /\ ReserveNum(tb, ab, d) > 0

\* f64 as u64: truncation toward zero, negative values saturate to 0.
AsU64(n, d) == IF n < 0 THEN 0 ELSE n \div d

\* the candidate rounded up instead of truncated
Calc_rounded_up(tb, ab, d) ==
  AsU64(ReserveNum(tb, ab, d) + 5 * d.num - 1, 5 * d.num)

\* (reserve * 8.0 / duration) as u64, for finite d > 0
Calc(tb, ab, d) == AsU64(ReserveNum(tb, ab, d), 5 * d.num)

\* only the upper limit applied
Clamp_upper_only(x, lo, hi) == IF x > hi THEN hi ELSE x

\* u64::clamp
Clamp(x, lo, hi) == IF x < lo THEN lo ELSE IF x > hi THEN hi ELSE x

\* the test `args.video_bitrate.is_none()` dropped
ShouldEstimate_despite_override(a, d) == GtZero(d)

\* duration > 0.0 && args.video_bitrate.is_none()
ShouldEstimate(a, d) == GtZero(d) /\ ~a.video_bitrate.some

\* the value of the local calc, when line 36 is executed
CalcOf(a, d) ==
  IF ShouldEstimate(a, d) /\ ReservePositive(a.target_bytes, a.audio_bitrate, d)
    THEN Some(Calc(a.target_bytes, a.audio_bitrate, d))
    ELSE None

\* v_bitrate after lines 31-39, v being its value before
Estimate(a, d, v) ==
  IF CalcOf(a, d).some
    THEN Clamp(CalcOf(a, d).val, MinVideoBitrate, MaxVideoBitrate)
    ELSE v

(***************************************************************************)
(* The diagnostic line, lines 41-44.  {:.2} rounds the value to            *)
(* hundredths, ties to even.                                               *)
(***************************************************************************)
Hundredths(d) ==
  LET n == 100 * Abs(d.num)
      q == n \div d.den
      r == n % d.den
      up == 2 * r > d.den \/ (2 * r = d.den /\ q % 2 = 1)
      h == IF up THEN q + 1 ELSE q
  IN IF d.num < 0 THEN 0 - h ELSE h

Fmt2(d) == IF d.kind = "fin" THEN [kind |-> "fin", hundredths |-> Hundredths(d)]
           ELSE [kind |-> d.kind, hundredths |-> d.num]

DiagLine(d, v, ab) == [tag |-> "diag", duration |-> Fmt2(d),
                       video_bitrate |-> v, audio_bitrate |-> ab]

(***************************************************************************)
(* The encoder command line, lines 47-73 (the bitrate arguments).          *)
(***************************************************************************)
K(n) == [n |-> n, unit |-> "k"]

VideoArg(v) == K(v \div 1000)

\* a quarter of the -b:v value
BufSizeArg_quarter(v) == K((v \div 1000) \div 4)

BufSizeArg(v) == K(v \div 500)

AudioArg(ab) == K(ab \div 1000)

FfmpegArgs(v, ab) == [bv |-> VideoArg(v), maxrate |-> VideoArg(v),
                      bufsize |-> BufSizeArg(v), ba |-> AudioArg(ab),
                      crf |-> 32]

\* What Command::status() can return: an io::Error when the child cannot
\* be spawned, else an ExitStatus whose code() is Some(c) or None (signal).
FfmpegOutcomes == {[spawned |-> FALSE, code |-> None]}
                  \cup {[spawned |-> TRUE, code |-> None]}
                  \cup {[spawned |-> TRUE, code |-> Some(c)] : c \in 0..MaxExitCode}

\* any exit code counted as success
Success_any_code(st) == st.code.some

\* ExitStatus::success()
Success(st) == st.code.some /\ st.code.val = 0

FailLine(st) == [tag |-> "ffmpeg failed", code |-> st.code]

IoErrorLine == [tag |-> "Error"]

(***************************************************************************)
(* The run.                                                                *)
(***************************************************************************)
Init == /\ args \in Args
        /\ pc = "start"
        /\ v_bitrate = 0
        /\ probe_out = None
        /\ duration = Zero
        /\ calc = None
        /\ ff_args = None
        /\ ff_result = None
        /\ stderr = <<>>
        /\ trace = <<>>
        /\ exit_code = None

\* lines 27-30: the default bitrate, then the blocking ffprobe call
ProbeStep == /\ pc = "start"
             /\ \E out \in ProbeOutcomes :
                   /\ probe_out' = Some(out)
                   /\ duration' = DurationOrZero(out)
             /\ v_bitrate' = InitialBitrate(args)
             /\ trace' = Append(trace, "probe")
             /\ pc' = "estimate"
             /\ UNCHANGED <<args, calc, ff_args, ff_result, stderr, exit_code>>

\* lines 31-44: the estimate and the diagnostic line
EstimateStep == /\ pc = "estimate"
                /\ calc' = CalcOf(args, duration)
                /\ v_bitrate' = Estimate(args, duration, v_bitrate)
                /\ stderr' = Append(stderr,
                                DiagLine(duration, v_bitrate', args.audio_bitrate))
                /\ trace' = Append(trace, "diag")
                /\ pc' = "encode"
                /\ UNCHANGED <<args, probe_out, duration, ff_args, ff_result,
                               exit_code>>

\* lines 47-76: ffmpeg is started; a spawn error leaves main through `?`
\* and the runtime reports it and exits with status 1
InvokeEncoder == /\ pc = "encode"
                 /\ ff_args' = Some(FfmpegArgs(v_bitrate, args.audio_bitrate))
                 /\ trace' = Append(trace, "encode")
                 /\ \/ /\ pc' = "encoding"
                       /\ UNCHANGED <<ff_result, stderr, exit_code>>
                    \/ /\ ff_result' = Some([spawned |-> FALSE, code |-> None])
                       /\ stderr' = Append(stderr, IoErrorLine)
                       /\ exit_code' = Some(1)
                       /\ pc' = "exited"
                 /\ UNCHANGED <<args, v_bitrate, probe_out, duration, calc>>

\* a failed encode started again
EncoderExit_retry ==
  /\ pc = "encoding"
  /\ \E st \in {o \in FfmpegOutcomes : o.spawned} :
        /\ ff_result' = Some(st)
        /\ IF Success(st)
             THEN /\ exit_code' = Some(0)
                  /\ pc' = "exited"
                  /\ UNCHANGED stderr
             ELSE /\ stderr' = Append(stderr, FailLine(st))
                  /\ pc' = "encode"
                  /\ UNCHANGED exit_code
  /\ UNCHANGED <<args, v_bitrate, probe_out, duration, calc, ff_args, trace>>

\* lines 76-83: the child's exit status arrives
EncoderExit == /\ pc = "encoding"
               /\ \E st \in {o \in FfmpegOutcomes : o.spawned} :
                     /\ ff_result' = Some(st)
                     /\ IF Success(st)
                          THEN /\ exit_code' = Some(0)
                               /\ UNCHANGED stderr
                          ELSE /\ stderr' = Append(stderr, FailLine(st))
                               /\ exit_code' = Some(1)
               /\ pc' = "exited"
               /\ UNCHANGED <<args, v_bitrate, probe_out, duration, calc,
                              ff_args, trace>>

Next == \/ ProbeStep
        \/ EstimateStep
        \/ InvokeEncoder
        \/ EncoderExit

Spec == Init /\ [][Next]_vars

\* Once ffprobe has returned, the steps up to the start of ffmpeg are the
\* program's own sequential code and are taken.
FairSpec == Spec /\ WF_vars(EstimateStep) /\ WF_vars(InvokeEncoder)

TypeOK == /\ args \in Args
          /\ pc \in {"start", "estimate", "encode", "encoding", "exited"}
          /\ v_bitrate \in Nat
          /\ Len(trace) <= 3

(***************************************************************************)
(* Properties.                                                             *)
(***************************************************************************)
Probed == pc # "start"

Estimated == pc \in {"encode", "encoding", "exited"}

NoOverride == ~args.video_bitrate.some

\* 40 * duration.den * (target_bytes * 0.85 - audio_bps / 8 * duration)
Reserve40 == 34 * args.target_bytes * duration.den
               - 5 * args.audio_bitrate * duration.num

\* C1: with no override, a probed duration > 0 and a reserve > 0, the
\* resolved video bitrate is reserve * 8 / duration truncated to an integer
\* and clamped into [200000, 1500000]; for duration 100, target 10485760 and
\* audio 64000 it is 649031.
C1_ClampedCandidate ==
  /\ (Estimated /\ NoOverride /\ duration.kind = "fin" /\ duration.num > 0
        /\ Reserve40 > 0) =>
       LET cand == Reserve40 \div (5 * duration.num)
       IN /\ v_bitrate >= 200000 /\ v_bitrate <= 1500000
          /\ cand < 200000 => v_bitrate = 200000
          /\ cand > 1500000 => v_bitrate = 1500000
          /\ (cand >= 200000 /\ cand <= 1500000) => v_bitrate = cand
  /\ (Estimated /\ NoOverride /\ duration = [kind |-> "fin", num |-> 100, den |-> 1]
        /\ args.target_bytes = 10485760 /\ args.audio_bitrate = 64000) =>
       v_bitrate = 649031

C1_Witness ==
  /\ pc = "exited" /\ NoOverride
  /\ duration = [kind |-> "fin", num |-> 100, den |-> 1]
  /\ args.target_bytes = 10485760 /\ args.audio_bitrate = 64000
  /\ calc = Some(649031) /\ v_bitrate = 649031

\* C2: when an override is supplied the resolved video bitrate is the
\* override itself, whatever the duration, target size and audio bitrate.
C2_OverrideWins ==
  (Probed /\ args.video_bitrate.some) => v_bitrate = args.video_bitrate.val

C2_Witness ==
  /\ pc = "exited" /\ args.video_bitrate = Some(2000000)
  /\ duration = [kind |-> "fin", num |-> 100, den |-> 1]
  /\ v_bitrate = 2000000

\* C3: with no override and a duration that is unknown or <= 0, the
\* resolved video bitrate is 500000.
C3_DefaultWithoutDuration ==
  (Estimated /\ NoOverride
     /\ \/ ~probe_out.val.spawned
        \/ ~probe_out.val.success
        \/ ~ParseF64(Trim(probe_out.val.stdout)).some
        \/ (duration.kind # "nan" /\ duration.num <= 0))
  => v_bitrate = 500000

C3_Witness ==
  /\ pc = "exited" /\ NoOverride
  /\ duration = [kind |-> "fin", num |-> 0 - 3, den |-> 2]
  /\ v_bitrate = 500000

\* C4: with no override, a duration > 0 and a reserve <= 0, the resolved
\* video bitrate is the fallback 500000.
C4_FallbackOnNonPositiveReserve ==
  (Estimated /\ NoOverride /\ duration.kind # "nan" /\ duration.num > 0
     /\ \/ (duration.kind = "fin" /\ Reserve40 <= 0)
        \/ (duration.kind = "inf" /\ args.audio_bitrate > 0))
  => v_bitrate = 500000

C4_Witness ==
  /\ pc = "exited" /\ NoOverride
  /\ args.target_bytes = 1000 /\ args.audio_bitrate = 64000
  /\ duration = [kind |-> "fin", num |-> 60, den |-> 1]
  /\ v_bitrate = 500000

\* C5 as stated: the -bufsize argument is one quarter of the -b:v argument.
C5_Original ==
  ff_args.some => ff_args.val.bufsize.n = ff_args.val.bv.n \div 4

\* C5 amended: the -bufsize argument is the resolved video bitrate divided
\* by 500 (integer division) with the suffix k, that is twice the -b:v and
\* -maxrate argument or twice that plus one.
C5_BufSizeIsTwice ==
  ff_args.some =>
    /\ ff_args.val.bufsize = [n |-> v_bitrate \div 500, unit |-> "k"]
    /\ ff_args.val.bv = [n |-> v_bitrate \div 1000, unit |-> "k"]
    /\ ff_args.val.maxrate = ff_args.val.bv
    /\ ff_args.val.bufsize.n \in {2 * ff_args.val.bv.n, 2 * ff_args.val.bv.n + 1}

C5_Witness ==
  /\ ff_args.some /\ v_bitrate = 500000
  /\ ff_args.val.bv.n = 500 /\ ff_args.val.bufsize.n = 1000

\* C6 as stated: the video bitrate resolved and handed to the encoder is
\* strictly positive for every request, with or without an override.
C6_Original ==
  /\ Estimated => v_bitrate > 0
  /\ ff_args.some => ff_args.val.bv.n > 0

\* C6 amended: the resolved video bitrate is strictly positive whenever no
\* override is given or the override is itself positive, and the -b:v
\* argument is positive whenever no override is given or the override is at
\* least 1000.
C6_PositiveUnlessOverridden ==
  /\ (Estimated /\ (NoOverride \/ args.video_bitrate.val > 0)) => v_bitrate > 0
  /\ (ff_args.some /\ (NoOverride \/ args.video_bitrate.val >= 1000)) =>
       ff_args.val.bv.n > 0

C6_Witness ==
  /\ ff_args.some /\ NoOverride /\ calc.some /\ calc.val < 1000
  /\ v_bitrate = 200000 /\ ff_args.val.bv.n = 200

\* C7: the run ends with exit code 0 exactly when the encoder reports
\* success, and with exit code 1 after the line "ffmpeg failed" carrying
\* the exit code or its absence when the encoder's status is a failure.
C7_ExitCode ==
  pc = "exited" =>
    /\ exit_code.some /\ exit_code.val \in {0, 1}
    /\ exit_code.val = 0 <=>
         (ff_result.val.spawned /\ ff_result.val.code = Some(0))
    /\ (ff_result.val.spawned /\ ff_result.val.code # Some(0)) =>
         /\ exit_code.val = 1
         /\ stderr[Len(stderr)] = [tag |-> "ffmpeg failed",
                                   code |-> ff_result.val.code]

C7_Witness ==
  /\ pc = "exited" /\ ff_result.val.spawned /\ ff_result.val.code = None
  /\ exit_code = Some(1)
  /\ stderr[Len(stderr)] = [tag |-> "ffmpeg failed", code |-> None]

\* The prober could not be started, exited non-zero, or printed text that
\* is empty or not a number.
ProbeFailed ==
  /\ probe_out.some
  /\ \/ ~probe_out.val.spawned
     \/ ~probe_out.val.success
     \/ probe_out.val.stdout \in { <<>>, <<"\n">>, <<"N", "/", "A", "\n">>,
                                   <<"1", ".", "2", ".", "3">>, <<".">>, <<"-">> }

\* C8: every probe failure is non-fatal: the duration is unknown (0.0), the
\* run does not end before the encoder is invoked, the encoder is invoked,
\* and with no override the video bitrate used is 500000.
C8_ProbeFailureNonFatal ==
  /\ [](ProbeFailed =>
          /\ duration = [kind |-> "fin", num |-> 0, den |-> 1]
          /\ pc = "exited" => ff_args.some
          /\ (Estimated /\ NoOverride) => v_bitrate = 500000
          /\ (ff_args.some /\ NoOverride) =>
               ff_args.val.bv = [n |-> 500, unit |-> "k"])
  /\ (ProbeFailed ~> ff_args.some)

C8_Witness ==
  /\ ProbeFailed /\ probe_out.val.spawned /\ ~probe_out.val.success
  /\ probe_out.val.stdout # <<>>
  /\ NoOverride /\ ff_args.some /\ v_bitrate = 500000

\* C9: the probe completes, then the diagnostic line is written, then the
\* encoder is started; each happens at most once in a run.
C9_StrictOrder ==
  /\ \E k \in 0..3 : trace = SubSeq(<<"probe", "diag", "encode">>, 1, k)
  /\ Len(trace) >= 1 <=> probe_out.some
  /\ Len(trace) >= 2 <=> (stderr # <<>>)
  /\ Len(trace) >= 2 =>
       /\ stderr[1].tag = "diag"
       /\ stderr[1].video_bitrate = v_bitrate
       /\ stderr[1].audio_bitrate = args.audio_bitrate
       /\ \A i \in 2..Len(stderr) : stderr[i].tag # "diag"
  /\ Len(trace) = 3 <=> ff_args.some
  /\ pc = "exited" => Len(trace) = 3

C9_Witness ==
  /\ pc = "exited" /\ exit_code = Some(1)
  /\ trace = <<"probe", "diag", "encode">>
  /\ Len(stderr) = 2

\* The positive finite durations the prober's output can denote.
PositiveDurations ==
  {ParseF64(Trim(s)).val :
     s \in {t \in StdoutSet : /\ ParseF64(Trim(t)).some
                              /\ ParseF64(Trim(t)).val.kind = "fin"
                              /\ ParseF64(Trim(t)).val.num > 0}}

\* d1 < d2
Shorter(d1, d2) == d1.num * d2.den < d2.num * d1.den

\* C10: with target size and audio bitrate fixed and no override, the
\* candidate bitrate before clamping for a longer positive duration is never
\* greater than the one for a shorter duration.
C10_MonotoneInDuration ==
  (Estimated /\ calc.some) =>
    \A d2 \in PositiveDurations :
      (Shorter(duration, d2) /\ CalcOf(args, d2).some) =>
        CalcOf(args, d2).val <= calc.val

C10_Witness ==
  /\ Estimated /\ calc.some
  /\ \E d2 \in PositiveDurations :
       /\ Shorter(duration, d2) /\ CalcOf(args, d2).some
       /\ CalcOf(args, d2).val < calc.val

=============================================================================
